---- MODULE Spec2Model ----
(***************************************************************************)
(* Agentic-Evaluation: the batch orchestrator (services/batch_processor.py) *)
(* with its status tracker (api/batch.py), the judge dispatcher            *)
(* (services/llm_judge.py, services/llm_provider*.py) and the score         *)
(* aggregator (services/score_aggregator.py).                              *)
(*                                                                         *)
(* Scores are integers in units of 1/Scale (10000 = 1.0).                  *)
(***************************************************************************)
EXTENDS Integers, Sequences, FiniteSets, TLC

\* ------------------------------------------------------------------------
\* Bounds of the model
\* ------------------------------------------------------------------------

\* number of POST /batch submissions in one run
MaxJobs == 2
\* largest len(req.inputs) of a submission
MaxInputs == 3
\* BatchProcessor(max_batch_size=...): chunk size the processor is built with
max_batch_size == 2
\* BatchProcessor(max_workers=...): threads of the shared ThreadPoolExecutor
max_workers == 2

\* four decimals, the precision of round(average_score, 4)
Scale == 10000

BatchIds == {"b1", "b2"}
JobIds == 1..MaxJobs
ItemIds == 1..MaxInputs

Dimensions ==
  {"instruction_following", "hallucination_prevention", "assumption_prevention",
   "coherence", "accuracy"}

\* Python's None and a dictionary key that is not there are the empty
\* sequence; a value v that is there is <<v>>
None == << >>
Absent == << >>
Some(v) == <<v>>
NoBatch == "-"
EmptyDict == [d \in {} |-> 0]

\* ------------------------------------------------------------------------
\* Arithmetic helpers
\* ------------------------------------------------------------------------

RECURSIVE SumSeq(_)
SumSeq(s) == IF s = <<>> THEN 0 ELSE Head(s) + SumSeq(Tail(s))

Min(a, b) == IF a < b THEN a ELSE b
Max(a, b) == IF a > b THEN a ELSE b

\* max(0.0, min(1.0, x))
Clamp01(x) == Max(0, Min(Scale, x))

\* the quotient cut off after the fourth decimal instead of rounded
RoundDivTruncated(num, den) == num \div den

\* round(num/den, 4) on values in units of 1/Scale: nearest unit, ties to even
RoundDiv(num, den) ==
  LET q == num \div den
      r == num % den
  IN  IF 2 * r < den THEN q
      ELSE IF 2 * r > den THEN q + 1
      ELSE IF q % 2 = 0 THEN q ELSE q + 1

\* ------------------------------------------------------------------------
\* Texts: a text is the sequence of its whitespace-separated words
\* ------------------------------------------------------------------------

\* a text that is nothing but whitespace is the one-element text <<Blank>>
Blank == " "
IsWord(w) == w # Blank

\* text.split()
Words(text) == SelectSeq(text, IsWord)

\* str.lower() on a word
LowerWord(w) ==
  CASE w = "AI" -> "ai"
    [] w = "I" -> "i"
    [] w = "Maybe" -> "maybe"
    [] w = "What" -> "what"
    [] w = "Hi" -> "hi"
    [] w = "Hi." -> "hi."
    [] w = "It" -> "it"
    [] w = "Machine" -> "machine"
    [] w = "Explain" -> "explain"
    [] w = "Tell" -> "tell"
    [] w = "Test" -> "test"
    [] OTHER -> w

Lower(text) == [k \in 1..Len(text) |-> LowerWord(text[k])]

\* the word without the punctuation written against it
Stem(w) ==
  CASE w = "intelligence." -> "intelligence"
    [] w = "useful." -> "useful"
    [] w = "probably," -> "probably"
    [] w = "ai?" -> "ai"
    [] OTHER -> w

\* phrase in text: the phrase's words occur consecutively in the text
Contains(text, phrase) ==
  \E k \in 1..(Len(text) - Len(phrase) + 1) :
    \A m \in 1..Len(phrase) : Stem(text[k + m - 1]) = phrase[m]

\* len(text.strip()): the words and the single blanks between them
RECURSIVE CharLen(_)
CharLen(text) ==
  IF text = << >> THEN 0
  ELSE Len(Head(text)) + (IF Len(text) > 1 THEN 1 ELSE 0) + CharLen(Tail(text))

\* set(text.lower().split())
WordSet(text) == {LowerWord(Words(text)[k]) : k \in 1..Len(Words(text))}

\* text.count('.') + text.count('?') + text.count('!') > 0
HasSentenceMark(text) ==
  \E k \in 1..Len(text) :
    text[k] \in {"intelligence.", "useful.", "ai?", "Hi.", "learning.",
                 "data.", "learning!"}

\* how many phrases of the list occur in the text
PhraseCount(text, phrases) ==
  Cardinality({k \in 1..Len(phrases) : Contains(text, phrases[k])})

\* ------------------------------------------------------------------------
\* llm_judge.judge_with_heuristics
\* ------------------------------------------------------------------------

hallucination_phrases ==
  << <<"i", "think">>, <<"probably">>, <<"maybe">>, <<"i", "guess">>,
     <<"it", "seems">>, <<"could", "be">> >>
assumption_phrases ==
  << <<"assuming">>, <<"if", "we", "assume">>, <<"without", "knowing">>,
     <<"unclear", "if">> >>
hedge_words ==
  << <<"somewhat">>, <<"slightly">>, <<"relatively">>, <<"quite">>,
     <<"rather">> >>

\* the heuristics that trigger, in the order the code runs them
Halluc(response) == PhraseCount(Lower(response), hallucination_phrases) > 2
Assum(response) == PhraseCount(Lower(response), assumption_phrases) > 1
Brief(response) == CharLen(Words(response)) < 50
LowSimilarity(response, reference) ==
  /\ reference # << >>
  /\ WordSet(reference) # {}
  /\ 10 * Cardinality(WordSet(response) \cap WordSet(reference))
       < 3 * Cardinality(WordSet(reference))
Hedge(response) == PhraseCount(Lower(response), hedge_words) > 1

\* f"{similarity:.1%}": the ratio in tenths of a percent
SimilarityPermille(response, reference) ==
  RoundDiv(1000 * Cardinality(WordSet(response) \cap WordSet(reference)),
           Cardinality(WordSet(reference)))

HeuristicReasons(response, reference) ==
  (IF Halluc(response)
   THEN << <<"speculative phrases",
             PhraseCount(Lower(response), hallucination_phrases)>> >>
   ELSE << >>)
  \o (IF Assum(response)
      THEN << <<"assumptions",
                PhraseCount(Lower(response), assumption_phrases)>> >>
      ELSE << >>)
  \o (IF Brief(response) THEN << <<"brief", 0>> >> ELSE << >>)
  \o (IF LowSimilarity(response, reference)
      THEN << <<"low similarity",
                SimilarityPermille(response, reference)>> >>
      ELSE << >>)
  \o (IF Hedge(response)
      THEN << <<"hedging words", PhraseCount(Lower(response), hedge_words)>> >>
      ELSE << >>)

\* a deduction taken twice when its heuristic triggers
B2NTwice(b, v) == IF b THEN 2 * v ELSE 0

\* the amount v when the heuristic b triggers
B2N(b, v) == IF b THEN v ELSE 0

\* the scores of lines 72-133 once it is known which heuristics trigger:
\* t.halluc, t.assum, t.brief, t.lowsim, t.hedge
heuristic_scores(t) ==
  LET score == 8000 - B2N(t.halluc, 1500) - B2N(t.assum, 1000)
                 - B2N(t.brief, 1000) - B2N(t.lowsim, 1000)
                 - B2N(t.hedge, 500)
      dims == [d \in Dimensions |->
                 CASE d = "hallucination_prevention" ->
                        8000 - B2N(t.halluc, 2000)
                   [] d = "assumption_prevention" -> 8000 - B2N(t.assum, 1500)
                   [] d = "accuracy" ->
                        8000 - B2N(t.brief, 1500) - B2N(t.lowsim, 1500)
                   [] d = "coherence" -> 8000 - B2N(t.hedge, 1000)
                   [] OTHER -> 8000]
  IN  [score |-> Clamp01(score),
       dimension_scores |-> [d \in Dimensions |-> Clamp01(dims[d])]]

\* the heuristics a response and a reference trigger
Triggers(response, reference) ==
  [halluc |-> Halluc(response), assum |-> Assum(response),
   brief |-> Brief(response), lowsim |-> LowSimilarity(response, reference),
   hedge |-> Hedge(response)]

judge_with_heuristics(prompt, response, reference) ==
  LET s == heuristic_scores(Triggers(response, reference))
      reasons == HeuristicReasons(response, reference)
  IN  [score |-> s.score,
       reason |-> IF reasons # << >> THEN reasons
                  ELSE << <<"meets evaluation criteria (heuristic)", 0>> >>,
       dimension_scores |-> s.dimension_scores]

\* ------------------------------------------------------------------------
\* score_aggregator.py
\* ------------------------------------------------------------------------

\* a float quotient, kept exact: num/den in units of 1/Scale, den # 0
Ratio(n, d) == [num |-> n, den |-> d]

\* max(0.0, min(1.0, q))
ClampRatio(q) ==
  LET n == IF q.den < 0 THEN -q.num ELSE q.num
      d == IF q.den < 0 THEN -q.den ELSE q.den
  IN  IF n < 0 THEN Ratio(0, 1)
      ELSE IF n > Scale * d THEN Ratio(Scale, 1)
      ELSE Ratio(n, d)

\* the mean taken over two scores whatever the length of the list
aggregate_scores_of_two(scores) ==
  IF scores = << >> THEN Ratio(0, 1)
  ELSE ClampRatio(Ratio(SumSeq(scores), 2))

aggregate_scores(scores) ==
  IF scores = << >> THEN Ratio(0, 1)
  ELSE ClampRatio(Ratio(SumSeq(scores), Len(scores)))

\* scores.get(dim, 0)
GetOr0(dict, key) == IF key \in DOMAIN dict THEN dict[key] ELSE 0

\* sum(scores.get(dim, 0) * weights.get(dim, 0) for dim in weights)
RECURSIVE WeightedSum(_, _, _)
WeightedSum(scores, weights, dims) ==
  IF dims = {} THEN 0
  ELSE LET d == CHOOSE x \in dims : TRUE
       IN  GetOr0(scores, d) * GetOr0(weights, d)
             + WeightedSum(scores, weights, dims \ {d})

\* sum(weights.values())
RECURSIVE TotalWeight(_, _)
TotalWeight(weights, dims) ==
  IF dims = {} THEN 0
  ELSE LET d == CHOOSE x \in dims : TRUE
       IN  weights[d] + TotalWeight(weights, dims \ {d})

\* the weighted mean normalised by the weights of the dimensions that have
\* a score
aggregate_scores_weighted_present(scores, weights) ==
  IF DOMAIN scores = {} THEN Ratio(0, 1)
  ELSE LET present == DOMAIN weights \cap DOMAIN scores
       IN  IF TotalWeight(weights, present) = 0 THEN Ratio(0, 1)
           ELSE ClampRatio(Ratio(WeightedSum(scores, weights, present),
                                 TotalWeight(weights, present)))

aggregate_scores_weighted(scores, weights) ==
  IF DOMAIN scores = {} THEN Ratio(0, 1)
  ELSE IF TotalWeight(weights, DOMAIN weights) = 0 THEN Ratio(0, 1)
  ELSE ClampRatio(Ratio(WeightedSum(scores, weights, DOMAIN weights),
                        TotalWeight(weights, DOMAIN weights)))

\* sample arguments: score lists of at most MaxScores scores, and
\* dictionaries over three of the dimensions
MaxScores == 3
ScoreValues == {-2000, 0, 7000, 8000, 9000, 10000, 13000}
ScoreLists == UNION {[1..n -> ScoreValues] : n \in 0..MaxScores}
AggregateInputs == [fn : {"aggregate_scores"}, scores : ScoreLists]

WeightedDims == {"instruction_following", "coherence", "accuracy"}
DimScoreValues == {6000, 9000, 13000}
\* weights in tenths
WeightValues == {-4, 0, 4, 6}
ScoreDicts == UNION {[S -> DimScoreValues] : S \in SUBSET WeightedDims}
WeightDicts == UNION {[S -> WeightValues] : S \in SUBSET WeightedDims}
WeightedInputs ==
  [fn : {"aggregate_scores_weighted"}, scores : ScoreDicts,
   weights : WeightDicts]

\* ------------------------------------------------------------------------
\* rule_based.apply_rule_checks
\* ------------------------------------------------------------------------

\* rule 1 with only the test "not response"
IsEmptyResponseNoStrip(response) == response = << >>

\* rule 1: not response or len(response.strip()) == 0
IsEmptyResponse(response) ==
  response = << >> \/ CharLen(Words(response)) = 0

\* rule 2: len(response.strip()) < 10
IsShortResponse(response) == CharLen(Words(response)) < 10

\* rule 3: none of '.', '?', '!' occurs in the response
LacksSentence(response) == ~HasSentenceMark(response)

\* rule 4: the words of the prompt that are in the response, and
\* max(len(prompt_words), 1)
OverlapCount(prompt, response) ==
  Cardinality(WordSet(prompt) \cap WordSet(response))
OverlapBase(prompt) == Max(Cardinality(WordSet(prompt)), 1)
\* rule 4 with the test overlap <= 0.1
LowOverlapInclusive(prompt, response) ==
  10 * OverlapCount(prompt, response) <= OverlapBase(prompt)

\* if overlap < 0.1
LowOverlap(prompt, response) ==
  10 * OverlapCount(prompt, response) < OverlapBase(prompt)

apply_rule_checks(prompt, response) ==
  LET issues ==
        (IF IsEmptyResponse(response)
         THEN << <<"Response is empty", 0>> >> ELSE << >>)
        \o (IF IsShortResponse(response)
            THEN << <<"Response too short (< 10 chars)", 0>> >> ELSE << >>)
        \o (IF LacksSentence(response)
            THEN << <<"Response lacks sentence structure", 0>> >> ELSE << >>)
        \o (IF LowOverlap(prompt, response)
            THEN << <<"Low keyword overlap with prompt",
                      RoundDiv(1000 * OverlapCount(prompt, response),
                               OverlapBase(prompt))>> >>
            ELSE << >>)
      score == Scale - B2N(IsEmptyResponse(response), 3000)
                 - B2N(IsShortResponse(response), 2000)
                 - B2N(LacksSentence(response), 1500)
                 - B2N(LowOverlap(prompt, response), 1000)
  IN  [score |-> Clamp01(score), issues |-> issues]

\* sample responses for the heuristic judge: the texts of at most MaxWords
\* words over a vocabulary that spells phrases of each list, and the longer
\* sample responses
MaxWords == 4
HeuristicVocabulary ==
  {"maybe", "probably", "i", "think", "assuming", "unclear", "if",
   "somewhat", "rather"}
ShortTexts == UNION {[1..n -> HeuristicVocabulary] : n \in 0..MaxWords}
HeuristicInputs ==
  [prompt : {<<"What", "is", "ai?">>},
   response : ShortTexts \cup
              { <<"AI", "is", "artificial", "intelligence.", "I", "think",
                  "it's", "probably", "useful.">>,
                <<"Maybe", "it", "could", "be", "probably,", "somewhat",
                  "rather", "assuming", "unclear", "if">> },
   reference : {<< >>, <<"AI", "is", "artificial", "intelligence.">>}]

\* every way the five heuristics can trigger: all five trigger together on a
\* response of fewer than 50 characters only when phrases are written
\* without blanks between them, which a text of words cannot spell
TriggerInputs ==
  [halluc : BOOLEAN, assum : BOOLEAN, brief : BOOLEAN, lowsim : BOOLEAN,
   hedge : BOOLEAN]

\* sample prompts and responses for the rule checker
RulePrompts ==
  { << >>,
    <<"Test", "prompt">>,
    <<"Explain", "machine", "learning">>,
    <<"Tell", "me", "about", "machine", "learning", "and", "neural",
      "networks", "in", "simple">>,
    <<"Tell", "me", "about", "machine", "learning", "and", "neural",
      "networks", "in", "simple", "terms">>,
    <<Blank>> }
RuleResponses ==
  { << >>,
    <<Blank>>,
    <<"Hi">>,
    <<"Hi.">>,
    <<"learning!">>,
    <<"machine", "a">>,
    <<"machine", "ok">>,
    <<"no", "punctuation", "here", "just", "words">>,
    <<"Test", "prompt", "learning.">>,
    <<"Machine", "learning", "is", "a", "subset", "of", "artificial",
      "intelligence.", "It", "enables", "systems", "to", "learn", "from",
      "data.">> }
RuleInputs == [prompt : RulePrompts, response : RuleResponses]

\* ------------------------------------------------------------------------
\* Providers: llm_provider.py, llm_provider_openai.py, llm_provider_anthropic.py
\* ------------------------------------------------------------------------

\* what the external model's JSON payload holds: the dimensions it names,
\* their values, and whether float() accepts every value
Payloads ==
  { [vals |-> [d \in Dimensions |-> 9000], numeric |-> TRUE],
    [vals |-> [d \in Dimensions |->
                 IF d = "instruction_following" THEN 15000 ELSE 8000],
     numeric |-> TRUE],
    [vals |-> [d \in {"accuracy"} |-> 4000], numeric |-> TRUE],
    [vals |-> [d \in Dimensions |-> 9000], numeric |-> FALSE] }

GoodPayload == [vals |-> [d \in Dimensions |-> 9000], numeric |-> TRUE]

CallFailures == {"network_error", "http_error", "unparseable"}

\* what the world does to one provider call: is the client package there,
\* how does the request end, what does the model answer
Envs ==
  {[dep |-> FALSE, call |-> "ok", payload |-> GoodPayload]}
  \cup {[dep |-> TRUE, call |-> c, payload |-> GoodPayload] : c \in CallFailures}
  \cup {[dep |-> TRUE, call |-> "ok", payload |-> p] : p \in Payloads}

Returned(r) == [raised |-> FALSE, exc |-> "", result |-> Some(r)]
Raised(e) == [raised |-> TRUE, exc |-> e, result |-> None]

\* result.get(d, 0.5) for the five dimensions, the mean clamped, the
\* dimensions as parsed (the sample payloads have a mean that is a whole
\* number of units)
ParsedResult(payload, default_reason) ==
  LET dims == [d \in Dimensions |->
                 IF d \in DOMAIN payload.vals THEN payload.vals[d] ELSE 5000]
      overall == (dims["instruction_following"] + dims["hallucination_prevention"]
                  + dims["assumption_prevention"] + dims["coherence"]
                  + dims["accuracy"]) \div 5
  IN  [score |-> Clamp01(overall),
       reason |-> << <<default_reason, 0>> >>,
       dimension_scores |-> dims]

\* OpenAIProvider._fallback_response, AnthropicProvider._fallback_response
fallback_response(reason) ==
  [score |-> 5000, reason |-> << <<reason, 0>> >>,
   dimension_scores |-> [d \in Dimensions |-> 5000]]

\* GeminiProvider.evaluate_response
GeminiEvaluate(api_key, endpoint, env) ==
  IF api_key # "" /\ endpoint # ""
  THEN IF ~env.dep \/ env.call \in {"network_error", "http_error"}
       THEN Raised("Gemini evaluation (REST) failed")
       ELSE IF env.call = "unparseable" THEN Raised("JSONDecodeError")
       ELSE IF ~env.payload.numeric THEN Raised("ValueError: float")
       ELSE Returned(ParsedResult(env.payload, "Evaluated by Gemini (REST)"))
  ELSE Raised("GeminiProvider: only REST (API key + endpoint) is supported")

\* OpenAIProvider.evaluate_response
OpenAIEvaluate(env) ==
  IF ~env.dep THEN Returned(fallback_response("OpenAI client unavailable"))
  ELSE IF env.call # "ok" \/ ~env.payload.numeric
  THEN Returned(fallback_response("OpenAI evaluation error"))
  ELSE Returned(ParsedResult(env.payload, "Evaluated by OpenAI"))

\* AnthropicProvider.evaluate_response
AnthropicEvaluate(env) ==
  IF ~env.dep THEN Returned(fallback_response("Anthropic client unavailable"))
  ELSE IF env.call # "ok" \/ ~env.payload.numeric
  THEN Returned(fallback_response("Anthropic evaluation error"))
  ELSE Returned(ParsedResult(env.payload, "Evaluated by Anthropic Claude"))

ProviderNames == {"gemini", "openai", "anthropic", "cohere"}
SupportedProviders == {"gemini", "openai", "anthropic"}

\* get_llm_provider with the kwargs judge_with_llm builds: the provider's
\* __init__ raises when its key is empty, the factory when the name is unknown
ProviderInitError(st) ==
  CASE st.llm_provider = "gemini" -> ""
    [] st.llm_provider = "openai" ->
         IF st.openai_api_key = "" THEN "OpenAI API key must be provided" ELSE ""
    [] st.llm_provider = "anthropic" ->
         IF st.anthropic_api_key = "" THEN "Anthropic API key must be provided"
         ELSE ""
    [] OTHER -> "Unsupported provider"

ProviderEvaluate(st, env) ==
  CASE st.llm_provider = "gemini" ->
         GeminiEvaluate(st.ai_studio_api_key, st.ai_studio_endpoint, env)
    [] st.llm_provider = "openai" -> OpenAIEvaluate(env)
    [] OTHER -> AnthropicEvaluate(env)

\* ------------------------------------------------------------------------
\* llm_judge.judge_with_llm
\* ------------------------------------------------------------------------

\* what one judge call did: its outcome, and how often it built a provider,
\* called a provider and called the heuristic judge
JudgeOut(outcome, constructed, provider_calls, heuristic_calls) ==
  [raised |-> outcome.raised, exc |-> outcome.exc, result |-> outcome.result,
   constructed |-> constructed, provider_calls |-> provider_calls,
   heuristic_calls |-> heuristic_calls]

\* an except clause that calls the provider a second time before it gives up
OnProviderErrorRetry(st, prompt, response, reference, exc, constructed, calls) ==
  IF st.use_heuristic_fallback
  THEN JudgeOut(Returned(judge_with_heuristics(prompt, response, reference)),
                constructed, calls + 1, 1)
  ELSE JudgeOut(Raised(exc), constructed, calls + 1, 0)

\* the except clause of lines 52-60
OnProviderError(st, prompt, response, reference, exc, constructed, calls) ==
  IF st.use_heuristic_fallback
  THEN JudgeOut(Returned(judge_with_heuristics(prompt, response, reference)),
                constructed, calls, 1)
  ELSE JudgeOut(Raised(exc), constructed, calls, 0)

\* lines 28-60
judge_try(st, prompt, response, reference, env) ==
  LET constructed == IF st.llm_provider \in SupportedProviders THEN 1 ELSE 0
  IN  IF ProviderInitError(st) # ""
      THEN OnProviderError(st, prompt, response, reference,
                           ProviderInitError(st), constructed, 0)
      ELSE LET r == ProviderEvaluate(st, env)
           IN  IF r.raised
               THEN OnProviderError(st, prompt, response, reference, r.exc,
                                    constructed, 1)
               ELSE JudgeOut(r, constructed, 1, 0)

\* judge_with_llm without the test of line 25
judge_with_llm_always_llm(st, prompt, response, reference, env) ==
  judge_try(st, prompt, response, reference, env)

judge_with_llm(st, prompt, response, reference, env) ==
  IF ~st.use_llm_evaluation
  THEN JudgeOut(Returned(judge_with_heuristics(prompt, response, reference)),
                0, 0, 1)
  ELSE judge_try(st, prompt, response, reference, env)

\* has the configured provider failed in this environment: no such provider,
\* no credentials, no client package, a failed request or an unusable payload
ProviderFailed(st, env) ==
  \/ st.llm_provider \notin SupportedProviders
  \/ ProviderInitError(st) # ""
  \/ st.llm_provider = "gemini"
       /\ (st.ai_studio_api_key = "" \/ st.ai_studio_endpoint = "")
  \/ ~env.dep
  \/ env.call # "ok"
  \/ ~env.payload.numeric

\* core/config.py
Settings ==
  [use_llm_evaluation : BOOLEAN, use_heuristic_fallback : BOOLEAN,
   llm_provider : ProviderNames,
   ai_studio_api_key : {"", "key"}, ai_studio_endpoint : {"", "url"},
   openai_api_key : {"", "key"}, anthropic_api_key : {"", "key"}]

DefaultSettings ==
  [use_llm_evaluation |-> TRUE, use_heuristic_fallback |-> TRUE,
   llm_provider |-> "gemini",
   ai_studio_api_key |-> "", ai_studio_endpoint |-> "",
   openai_api_key |-> "", anthropic_api_key |-> ""]

\* sample prompts, responses and references
SamplePrompt == <<"What", "is", "ai?">>
SampleResponses ==
  { <<"AI", "is", "artificial", "intelligence.", "I", "think", "it's",
      "probably", "useful.">>,
    <<"Maybe", "it", "could", "be", "probably,", "somewhat", "rather",
      "assuming", "unclear", "if">>,
    << >> }
SampleReferences ==
  { << >>, <<"AI", "is", "artificial", "intelligence.">> }

\* ------------------------------------------------------------------------
\* api/batch.py evaluate_single_input
\* ------------------------------------------------------------------------

\* EvaluationInput(**item): the model has the fields prompt and reference;
\* any other key of the submitted item is dropped
EvaluationInput(item) == [prompt |-> item.prompt, reference |-> item.reference]

\* lines 21-46: the arguments the rule checker and the judge are called with,
\* and the mapping returned (or the judge's exception)
evaluate_single_input(st, request_id, input_item, env) ==
  LET prompt == input_item.prompt
      reference == input_item.reference
      rule_result == apply_rule_checks(prompt, reference)
      llm == judge_with_llm(st, prompt, reference, None, env)
  IN  [rule_args |-> <<prompt, reference>>,
       judge_args |-> <<prompt, reference, None>>,
       raised |-> llm.raised,
       result |->
         IF llm.raised THEN None
         ELSE Some([id |-> <<request_id, input_item>>,
                    score |-> aggregate_scores(<<rule_result.score,
                                                 llm.result[1].score>>),
                    dimension_scores |-> llm.result[1].dimension_scores,
                    rule_issues |-> rule_result.issues,
                    llm_reason |-> llm.result[1].reason])]

\* sample items as a caller submits them, and the settings and environments
\* they are evaluated under
SubmittedItems ==
  [prompt : {<<"What", "is", "ai?">>, <<"Explain", "machine", "learning">>},
   response : SampleResponses,
   reference : SampleReferences]
ItemSettings ==
  {DefaultSettings,
   [DefaultSettings EXCEPT !.use_heuristic_fallback = FALSE],
   [DefaultSettings EXCEPT !.llm_provider = "openai", !.openai_api_key = "key"]}
ItemInputs == [item : SubmittedItems, env : Envs]

\* ------------------------------------------------------------------------
\* Results of evaluate_func for one item
\* ------------------------------------------------------------------------

AllDims(v) == [d \in Dimensions |-> v]

\* evaluate_func is a parameter of process_batch_async: the score and the
\* dimension_scores of the mappings it returns in the model, one below the
\* lowest bucket boundary and one on the highest
EvalOutcomes ==
  { [score |-> 4000, dimension_scores |-> AllDims(5000)],
    [score |-> 9000, dimension_scores |-> AllDims(8000)] }

\* the mapping returned for input i of request request_id: its "id" is built
\* from the request id and the input
EvalResult(request_id, i, o) ==
  [id |-> <<request_id, i>>, score |-> o.score,
   dimension_scores |-> o.dimension_scores]

\* the exception an item's evaluation raises, and str(e)
ItemError(i) == [type |-> "Exception", item |-> i]
SaveError == [type |-> "OSError", item |-> 0]
Str(e) == <<e.type, e.item>>

\* ------------------------------------------------------------------------
\* BatchProcessor._aggregate_batch_results
\* ------------------------------------------------------------------------

Scores(results) == [k \in 1..Len(results) |-> results[k].score]

IsExcellent(s) == s >= 9000
IsGood(s) == 7000 <= s /\ s < 9000
IsFair(s) == 5000 <= s /\ s < 7000
IsPoor(s) == s < 5000

score_distribution(scores) ==
  [excellent |-> Cardinality({k \in 1..Len(scores) : IsExcellent(scores[k])}),
   good |-> Cardinality({k \in 1..Len(scores) : IsGood(scores[k])}),
   fair |-> Cardinality({k \in 1..Len(scores) : IsFair(scores[k])}),
   poor |-> Cardinality({k \in 1..Len(scores) : IsPoor(scores[k])})]

\* the values of dimension dim over the results that report it, in order
RECURSIVE DimValues(_, _)
DimValues(results, dim) ==
  IF results = <<>> THEN <<>>
  ELSE LET ds == Head(results).dimension_scores
       IN  (IF dim \in DOMAIN ds THEN <<ds[dim]>> ELSE <<>>)
             \o DimValues(Tail(results), dim)

dimension_averages(results) ==
  LET dims == {d \in Dimensions : DimValues(results, d) # <<>>}
  IN  [d \in dims |->
         RoundDiv(SumSeq(DimValues(results, d)), Len(DimValues(results, d)))]

aggregate_batch_results(request_id, results) ==
  IF results = <<>>
  THEN [batch_id |-> request_id,
        total_evaluated |-> 0,
        average_score |-> 0,
        dimension_averages |-> EmptyDict,
        score_distribution |-> Absent,
        results |-> << >>]
  ELSE [batch_id |-> request_id,
        total_evaluated |-> Len(results),
        average_score |-> RoundDiv(SumSeq(Scores(results)), Len(results)),
        dimension_averages |-> dimension_averages(results),
        score_distribution |-> Some(score_distribution(Scores(results))),
        results |-> results]

\* ------------------------------------------------------------------------
\* State
\* ------------------------------------------------------------------------

VARIABLES
  batch_status,   \* api/batch.py: the dictionary batch_id -> record
  job,            \* the _process_batch background tasks, by submission
  items,          \* per job, the run_in_executor task of each input
  work_queue,     \* the ThreadPoolExecutor's FIFO work queue of <<job, item>>
  query,          \* a get_batch_result call between its check and its read
  response,       \* what the last HTTP handler returned
  settings,       \* core/config.py: the process's Settings
  judge_call,     \* the arguments and the environment of the last judge call
  judge_out,      \* what the last judge call did
  fn_args,        \* the arguments a service function is called with
  fn_ret          \* what that call returned

batch_vars == <<batch_status, job, items, work_queue>>
judge_vars == <<settings, judge_call, judge_out>>
fn_vars == <<fn_args, fn_ret>>
vars == <<batch_status, job, items, work_queue, query, response, settings,
          judge_call, judge_out, fn_args, fn_ret>>

\* progress: the progress_callback invocations of the task so far, each
\* <<processed, total>>
NoJob ==
  [bid |-> NoBatch, total |-> 0, pc |-> "none", start |-> 0, processed |-> 0,
   all_results |-> << >>, exc |-> None, result |-> None, progress |-> << >>]

\* runs: how often a worker thread has called evaluate_func for the input
NewItem == [st |-> "new", res |-> None, runs |-> 0]

InitBatch ==
  /\ batch_status = EmptyDict
  /\ job = [j \in JobIds |-> NoJob]
  /\ items = [j \in JobIds |-> [i \in ItemIds |-> NewItem]]
  /\ work_queue = << >>
  /\ query = NoBatch
  /\ response = None
  /\ judge_call = None
  /\ judge_out = None

\* no service function is being called on its own
NoCall == fn_args = None /\ fn_ret = None

Init == InitBatch /\ settings = DefaultSettings /\ NoCall

InitJudge == InitBatch /\ settings \in Settings /\ NoCall

InitAggregator ==
  /\ InitBatch
  /\ settings = DefaultSettings
  /\ \/ fn_args \in AggregateInputs
     \/ fn_args \in WeightedInputs
  /\ fn_ret = None

InitItem ==
  InitBatch /\ settings \in ItemSettings /\ fn_args \in ItemInputs
    /\ fn_ret = None

InitHeuristics ==
  /\ InitBatch
  /\ settings = DefaultSettings
  /\ \/ fn_args \in HeuristicInputs
     \/ fn_args \in TriggerInputs
  /\ fn_ret = None

InitRules ==
  InitBatch /\ settings = DefaultSettings /\ fn_args \in RuleInputs
    /\ fn_ret = None

\* the event loop runs one coroutine segment at a time: between line 114 and
\* line 115 (118 and 119) of _process_batch no other coroutine runs
LoopFree == \A j \in JobIds : job[j].pc \notin {"completing", "failing"}

\* chunk_requests: the chunk that starts at offset start (0-based) is
\* inputs[start : start + chunk_size]
ChunkItems(total, start) == (start + 1)..Min(start + max_batch_size, total)

Running == {p \in JobIds \X ItemIds : items[p[1]][p[2]].st = "running"}

\* ------------------------------------------------------------------------
\* POST /batch
\* ------------------------------------------------------------------------

\* a record that forgets the number of inputs
NewRecordNoTotal(n) ==
  [status |-> "processing", total |-> 0, processed |-> 0, result |-> None,
   error |-> Absent]

NewRecord(n) ==
  [status |-> "processing", total |-> n, processed |-> 0, result |-> None,
   error |-> Absent]

SubmitResponse(b, n) ==
  [op |-> "evaluate_batch", batch_id |-> b, status |-> "queued", total |-> n]

evaluate_batch(b, n) ==
  /\ LoopFree
  /\ \E j \in JobIds :
       /\ job[j].pc = "none"
       /\ \A k \in JobIds : k < j => job[k].pc # "none"
       /\ job' = [job EXCEPT ![j] = [NoJob EXCEPT !.bid = b, !.total = n,
                                                 !.pc = "queued"]]
  /\ batch_status' = [k \in DOMAIN batch_status \cup {b} |->
                        IF k = b THEN NewRecord(n) ELSE batch_status[k]]
  /\ response' = Some(SubmitResponse(b, n))
  /\ UNCHANGED <<items, work_queue, query, judge_vars, fn_vars>>

\* ------------------------------------------------------------------------
\* _process_batch / process_batch_async
\* ------------------------------------------------------------------------

\* every input from offset start on is handed to the executor at once
SubmitRest(j, total, start) ==
  /\ items' = [items EXCEPT ![j] =
       [i \in ItemIds |-> IF i \in (start + 1)..total
                          THEN [items[j][i] EXCEPT !.st = "queued"]
                          ELSE items[j][i]]]
  /\ work_queue' = work_queue \o [k \in 1..(total - start) |-> <<j, start + k>>]

\* the tasks of the chunk are handed to the executor, the chunk's first input
\* a second time
SubmitChunkTwice(j, total, start) ==
  /\ items' = [items EXCEPT ![j] =
       [i \in ItemIds |-> IF i \in ChunkItems(total, start)
                          THEN [items[j][i] EXCEPT !.st = "queued"]
                          ELSE items[j][i]]]
  /\ work_queue' = work_queue \o
       [k \in 1..(Min(start + max_batch_size, total) - start) |->
          <<j, start + k>>] \o << <<j, start + 1>> >>

\* the tasks of the chunk at offset start are handed to the executor
SubmitChunk(j, total, start) ==
  /\ items' = [items EXCEPT ![j] =
       [i \in ItemIds |-> IF i \in ChunkItems(total, start)
                          THEN [items[j][i] EXCEPT !.st = "queued"]
                          ELSE items[j][i]]]
  /\ work_queue' = work_queue \o
       [k \in 1..(Min(start + max_batch_size, total) - start) |->
          <<j, start + k>>]

\* what can happen while save_result runs
SaveOutcomes == {"ok", "db_error", "json_error"}

\* does save_result return: its database part is inside try/except (lines
\* 22-56), its JSON part (lines 59-69) is not
save_result(outcome) == outcome # "json_error"

\* lines 71 and 112-114 (or 118): aggregate, save, mark completed
Finish(j, rec, all, calls, save_ok) ==
  LET result == aggregate_batch_results(job[j].bid, all)
  IN  IF save_ok
      THEN /\ batch_status' = [batch_status EXCEPT ![job[j].bid] =
                                 [rec EXCEPT !.status = "completed"]]
           /\ job' = [job EXCEPT ![j].pc = "completing", ![j].all_results = all,
                                 ![j].processed = Len(all),
                                 ![j].progress = calls,
                                 ![j].result = Some(result)]
      ELSE /\ batch_status' = [batch_status EXCEPT ![job[j].bid] =
                                 [rec EXCEPT !.status = "failed"]]
           /\ job' = [job EXCEPT ![j].pc = "failing", ![j].all_results = all,
                                 ![j].processed = Len(all),
                                 ![j].progress = calls,
                                 ![j].exc = Some(SaveError)]

\* the background task starts: first chunk is dispatched, or, with no
\* inputs, the empty summary is produced at once
StartBatch(j) ==
  /\ LoopFree
  /\ job[j].pc = "queued"
  /\ IF job[j].total = 0
     THEN /\ \E o \in SaveOutcomes :
               Finish(j, batch_status[job[j].bid], << >>, << >>,
                      save_result(o))
          /\ UNCHANGED <<items, work_queue>>
     ELSE /\ SubmitChunk(j, job[j].total, 0)
          /\ job' = [job EXCEPT ![j].pc = "gather"]
          /\ UNCHANGED batch_status
  /\ UNCHANGED <<query, response, judge_vars, fn_vars>>

\* an executor that starts a thread for every task handed to it
WorkerAlwaysFree == TRUE

\* ThreadPoolExecutor(max_workers=...): a queued task is taken only by an
\* idle thread, and there are max_workers threads
WorkerFree == Cardinality(Running) < max_workers

\* a worker thread of the executor takes the oldest queued task
ItemStart ==
  /\ work_queue # << >>
  /\ WorkerFree
  /\ LET p == Head(work_queue)
     IN  items' = [items EXCEPT ![p[1]][p[2]].st = "running",
                                ![p[1]][p[2]].runs = @ + 1]
  /\ work_queue' = Tail(work_queue)
  /\ UNCHANGED <<batch_status, job, query, response, judge_vars, fn_vars>>

\* evaluate_func returns for item i of job j
ItemReturn(j, i) ==
  /\ items[j][i].st = "running"
  /\ \E o \in EvalOutcomes :
       items' = [items EXCEPT ![j][i] =
                   [items[j][i] EXCEPT
                      !.st = "ok",
                      !.res = Some(EvalResult(job[j].bid, i, o))]]
  /\ UNCHANGED <<batch_status, job, work_queue, query, response, judge_vars, fn_vars>>

\* evaluate_func raises for item i of job j; gather keeps the first exception
ItemRaise(j, i) ==
  /\ items[j][i].st = "running"
  /\ items' = [items EXCEPT ![j][i].st = "raised", ![j][i].res = None]
  /\ job' = IF job[j].pc = "gather" /\ job[j].exc = None
            THEN [job EXCEPT ![j].exc = Some(ItemError(i))]
            ELSE job
  /\ UNCHANGED <<batch_status, work_queue, query, response, judge_vars, fn_vars>>

\* the chunk's results in the order a task finished first: the task of the
\* chunk's last input first
gather_reversed(its, lo, hi) ==
  [k \in 1..(hi - lo + 1) |-> its[hi - k + 1].res[1]]

\* await asyncio.gather(*tasks): the tasks' results in the order of the
\* tasks, which is the order of the chunk's inputs
gather(its, lo, hi) == [k \in 1..(hi - lo + 1) |-> its[lo + k - 1].res[1]]

\* a progress callback that is never invoked
on_progress_skipped(calls, processed, total) == calls

\* lines 67-68: await progress_callback(processed, total)
on_progress(calls, processed, total) == Append(calls, <<processed, total>>)

\* gather returned the chunk's results: lines 64-68, then the next chunk or
\* lines 71 and 112-114
ChunkDone(j) ==
  /\ LoopFree
  /\ job[j].pc = "gather"
  /\ LET chunk == ChunkItems(job[j].total, job[j].start)
         lo == job[j].start + 1
         hi == Min(job[j].start + max_batch_size, job[j].total)
         chunk_results == gather(items[j], lo, hi)
         all == job[j].all_results \o chunk_results
         processed == job[j].processed + Cardinality(chunk)
         calls == on_progress(job[j].progress, processed, job[j].total)
         rec == [batch_status[job[j].bid] EXCEPT !.processed = processed]
     IN  /\ \A i \in chunk : items[j][i].st = "ok"
         /\ IF hi < job[j].total
            THEN /\ SubmitChunk(j, job[j].total, hi)
                 /\ job' = [job EXCEPT ![j].start = hi, ![j].all_results = all,
                                       ![j].processed = processed,
                                       ![j].progress = calls]
                 /\ batch_status' = [batch_status EXCEPT ![job[j].bid] = rec]
            ELSE /\ \E o \in SaveOutcomes :
                      Finish(j, rec, all, calls, save_result(o))
                 /\ UNCHANGED <<items, work_queue>>
  /\ UNCHANGED <<query, response, judge_vars, fn_vars>>

\* gather raised: line 118
ChunkFailed(j) ==
  /\ LoopFree
  /\ job[j].pc = "gather"
  /\ job[j].exc # None
  /\ batch_status' = [batch_status EXCEPT ![job[j].bid].status = "failed"]
  /\ job' = [job EXCEPT ![j].pc = "failing"]
  /\ UNCHANGED <<items, work_queue, query, response, judge_vars, fn_vars>>

\* line 115
SetResult(j) ==
  /\ job[j].pc = "completing"
  /\ batch_status' = [batch_status EXCEPT ![job[j].bid].result = job[j].result]
  /\ job' = [job EXCEPT ![j].pc = "done"]
  /\ UNCHANGED <<items, work_queue, query, response, judge_vars, fn_vars>>

\* line 119
SetError(j) ==
  /\ job[j].pc = "failing"
  /\ batch_status' = [batch_status EXCEPT ![job[j].bid].error = Some(Str(job[j].exc[1]))]
  /\ job' = [job EXCEPT ![j].pc = "done"]
  /\ UNCHANGED <<items, work_queue, query, response, judge_vars, fn_vars>>

\* ------------------------------------------------------------------------
\* GET /batch/status/{batch_id}, GET /batch/result/{batch_id}
\* ------------------------------------------------------------------------

NotFound(b) ==
  [op |-> "get_batch_status", batch_id |-> b, status |-> "not_found",
   message |-> "Batch not found"]

\* get_batch_status answering for an unknown id as for a fresh batch
get_batch_status_response_default(bs, b) ==
  IF b \notin DOMAIN bs
  THEN [op |-> "get_batch_status", batch_id |-> b, status |-> "processing",
        record |-> NewRecord(0)]
  ELSE [op |-> "get_batch_status", batch_id |-> b, status |-> bs[b].status,
        record |-> bs[b]]

get_batch_status_response(bs, b) ==
  IF b \notin DOMAIN bs THEN NotFound(b)
  ELSE [op |-> "get_batch_status", batch_id |-> b, status |-> bs[b].status,
        record |-> bs[b]]

get_batch_status(b) ==
  /\ response' = Some(get_batch_status_response(batch_status, b))
  /\ UNCHANGED <<batch_vars, query, judge_vars, fn_vars>>

ResultError(b) ==
  [op |-> "get_batch_result", batch_id |-> b,
   error |-> "not completed or not found"]

\* line 153: the test, in a threadpool thread
get_batch_result_check(b) ==
  /\ query = NoBatch
  /\ IF b \notin DOMAIN batch_status \/ batch_status[b].status # "completed"
     THEN response' = Some(ResultError(b)) /\ query' = NoBatch
     ELSE query' = b /\ response' = response
  /\ UNCHANGED <<batch_vars, judge_vars, fn_vars>>

\* line 158
get_batch_result_return ==
  /\ query # NoBatch
  /\ response' = Some([op |-> "get_batch_result", batch_id |-> query,
                       result |-> batch_status[query].result])
  /\ query' = NoBatch
  /\ UNCHANGED <<batch_vars, judge_vars, fn_vars>>

\* ------------------------------------------------------------------------
\* One call of the judge dispatcher
\* ------------------------------------------------------------------------

Judge(prompt, resp, reference, env) ==
  /\ judge_call = None
  /\ judge_call' = Some([prompt |-> prompt, response |-> resp,
                         reference |-> reference, env |-> env])
  /\ judge_out' = Some(judge_with_llm(settings, prompt, resp, reference, env))
  /\ UNCHANGED <<batch_vars, query, response, settings, fn_vars>>

\* the caller has taken the judge's answer
JudgeReturn ==
  /\ judge_call # None
  /\ judge_call' = None
  /\ judge_out' = None
  /\ UNCHANGED <<batch_vars, query, response, settings, fn_vars>>

\* ------------------------------------------------------------------------

Next ==
  \/ \E b \in BatchIds, n \in 0..MaxInputs : evaluate_batch(b, n)
  \/ \E j \in JobIds : StartBatch(j)
  \/ ItemStart
  \/ \E j \in JobIds, i \in ItemIds : ItemReturn(j, i)
  \/ \E j \in JobIds, i \in ItemIds : ItemRaise(j, i)
  \/ \E j \in JobIds : ChunkDone(j)
  \/ \E j \in JobIds : ChunkFailed(j)
  \/ \E j \in JobIds : SetResult(j)
  \/ \E j \in JobIds : SetError(j)

\* the batch tasks
Spec == Init /\ [][Next]_vars

NextQuery ==
  \/ Next
  \/ \E b \in BatchIds : get_batch_status(b)
  \/ \E b \in BatchIds : get_batch_result_check(b)
  \/ get_batch_result_return

\* the batch tasks and the clients that poll them
SpecQuery == Init /\ [][NextQuery]_vars

NextJudge ==
  \/ \E r \in SampleResponses, ref \in SampleReferences, env \in Envs :
       Judge(SamplePrompt, r, ref, env)
  \/ JudgeReturn

\* judge calls under every configuration
SpecJudge == InitJudge /\ [][NextJudge]_vars

\* ------------------------------------------------------------------------
\* The score aggregator on its own
\* ------------------------------------------------------------------------

ApplyAggregate ==
  /\ fn_ret = None
  /\ fn_args.fn = "aggregate_scores"
  /\ fn_ret' = Some(aggregate_scores(fn_args.scores))
  /\ UNCHANGED <<batch_vars, query, response, judge_vars, fn_args>>

ApplyWeighted ==
  /\ fn_ret = None
  /\ fn_args.fn = "aggregate_scores_weighted"
  /\ fn_ret' = Some(aggregate_scores_weighted(fn_args.scores, fn_args.weights))
  /\ UNCHANGED <<batch_vars, query, response, judge_vars, fn_args>>

NextAggregator == ApplyAggregate \/ ApplyWeighted

SpecAggregator == InitAggregator /\ [][NextAggregator]_vars

\* ------------------------------------------------------------------------
\* The evaluation of one submitted item
\* ------------------------------------------------------------------------

EvaluateItem ==
  /\ fn_ret = None
  /\ fn_ret' = Some(evaluate_single_input(settings, "b1",
                                          EvaluationInput(fn_args.item),
                                          fn_args.env))
  /\ UNCHANGED <<batch_vars, query, response, judge_vars, fn_args>>

NextItem == EvaluateItem

SpecItem == InitItem /\ [][NextItem]_vars

\* ------------------------------------------------------------------------
\* The heuristic judge on its own
\* ------------------------------------------------------------------------

\* lines 86-133 for given outcomes of the five tests
ApplyDeductions ==
  /\ fn_ret = None
  /\ "halluc" \in DOMAIN fn_args
  /\ fn_ret' = Some(heuristic_scores(fn_args))
  /\ UNCHANGED <<batch_vars, query, response, judge_vars, fn_args>>

ApplyHeuristics ==
  /\ fn_ret = None
  /\ "response" \in DOMAIN fn_args
  /\ fn_ret' = Some(judge_with_heuristics(fn_args.prompt, fn_args.response,
                                          fn_args.reference))
  /\ UNCHANGED <<batch_vars, query, response, judge_vars, fn_args>>

NextHeuristics == ApplyHeuristics \/ ApplyDeductions

SpecHeuristics == InitHeuristics /\ [][NextHeuristics]_vars

\* ------------------------------------------------------------------------
\* The rule checker on its own
\* ------------------------------------------------------------------------

ApplyRuleChecks ==
  /\ fn_ret = None
  /\ fn_ret' = Some(apply_rule_checks(fn_args.prompt, fn_args.response))
  /\ UNCHANGED <<batch_vars, query, response, judge_vars, fn_args>>

NextRules == ApplyRuleChecks

SpecRules == InitRules /\ [][NextRules]_vars

\* ------------------------------------------------------------------------
\* Properties
\* ------------------------------------------------------------------------

Terminal(rec) == rec.status \in {"completed", "failed"}

\* C1: once a record is completed or failed (and the task that ended it has
\* written its result or error), no later operation changes its status,
\* result, error, total or processed.
C1_TerminalImmutable ==
  [][\A b \in DOMAIN batch_status :
       (Terminal(batch_status[b]) /\ LoopFree)
         => batch_status'[b] = batch_status[b]]_vars

\* C2: every record has 0 <= processed <= total, and no step lowers the
\* processed of a record.
C2_ProcessedBounded ==
  [][\A b \in DOMAIN batch_status' :
       /\ 0 <= batch_status'[b].processed
       /\ batch_status'[b].processed <= batch_status'[b].total
       /\ b \in DOMAIN batch_status
            => batch_status'[b].processed >= batch_status[b].processed]_vars

IsItemError(e) == e # None /\ e[1].type = "Exception"

\* every task started for batch_id b has ended
Settled(b) == \A k \in JobIds : job[k].bid = b => job[k].pc = "done"

\* C3: when an item of a batch has raised and every task of its batch_id has
\* ended, the batch's record is failed, its error is the stringified
\* exception and it has no result.
C3_ItemFailureFailsBatch ==
  \A j \in JobIds :
    (job[j].pc = "done" /\ IsItemError(job[j].exc) /\ Settled(job[j].bid))
      => /\ batch_status[job[j].bid].status = "failed"
         /\ batch_status[job[j].bid].error = Some(Str(job[j].exc[1]))
         /\ batch_status[job[j].bid].result = None

AllReturned(j) == \A i \in 1..job[j].total : items[j][i].st = "ok"

\* C4: a batch of N inputs whose evaluations all returned ends completed,
\* with a result whose total_evaluated is N.
C4_AllReturnedCompletes ==
  \A j \in JobIds :
    (job[j].pc = "done" /\ AllReturned(j))
      => /\ batch_status[job[j].bid].status = "completed"
         /\ batch_status[job[j].bid].result # None
         /\ batch_status[job[j].bid].result[1].total_evaluated = job[j].total

JudgeCalled == judge_call # None

HeuristicAnswer ==
  judge_with_heuristics(judge_call[1].prompt, judge_call[1].response,
                        judge_call[1].reference)

\* C5: with external judging enabled, a failed provider makes judge return
\* the heuristic judge's result when fallback is enabled and raise when it
\* is disabled, for every provider.
C5_FailureFallsBack ==
  (JudgeCalled /\ settings.use_llm_evaluation
     /\ ProviderFailed(settings, judge_call[1].env))
    => IF settings.use_heuristic_fallback
       THEN ~judge_out[1].raised /\ judge_out[1].result = Some(HeuristicAnswer)
       ELSE judge_out[1].raised

\* C6: with external judging disabled, judge returns exactly the heuristic
\* judge's result, and no provider is constructed or invoked, whatever
\* provider is configured.
C6_DisabledIsHeuristic ==
  (JudgeCalled /\ ~settings.use_llm_evaluation)
    => /\ ~judge_out[1].raised
       /\ judge_out[1].result = Some(HeuristicAnswer)
       /\ judge_out[1].constructed = 0
       /\ judge_out[1].provider_calls = 0

C6_Witness ==
  /\ JudgeCalled
  /\ ~settings.use_llm_evaluation
  /\ settings.llm_provider = "openai"
  /\ settings.openai_api_key # ""
  /\ judge_call[1].env.call = "ok"
  /\ judge_call[1].env.dep
  /\ judge_out[1].heuristic_calls = 1
  /\ judge_out[1].result[1].score < 8000

IsResultResponse == response # None /\ response[1].op = "get_batch_result"

\* C7: get_batch_result returns an error mapping or the batch's summary,
\* never a missing result.
C7_ResultNeverNull ==
  IsResultResponse
    => \/ "error" \in DOMAIN response[1]
       \/ /\ response[1].result # None
          /\ response[1].result[1].batch_id = response[1].batch_id

\* C8: the status of a batch_id that was never submitted is not_found, and
\* asking for it creates no record and changes none.
C8_UnknownIsNotFound ==
  [][\A b \in BatchIds :
       (b \notin DOMAIN batch_status /\ get_batch_status(b))
         => /\ response'[1].status = "not_found"
            /\ response'[1].batch_id = b
            /\ batch_status' = batch_status]_vars

C8_Witness ==
  /\ response = Some(NotFound("b2"))
  /\ "b2" \notin DOMAIN batch_status
  /\ "b1" \in DOMAIN batch_status
  /\ batch_status["b1"].status = "completed"

Submitted(j) == job[j].pc = "none" /\ job'[j].pc = "queued"

DistributionTotal(d) == d.excellent + d.good + d.fair + d.poor

\* C10: in every summary the orchestrator produces, also for no results, the
\* score_distribution counts add up to total_evaluated.
C10_DistributionPartitions ==
  \A j \in JobIds :
    job[j].result # None
      => /\ job[j].result[1].score_distribution # Absent
         /\ DistributionTotal(job[j].result[1].score_distribution[1])
              = job[j].result[1].total_evaluated

\* ------------------------------------------------------------------------
\* C11: the summary's average
\* ------------------------------------------------------------------------

Abs(x) == IF x < 0 THEN -x ELSE x

Summaries == {job[j].result[1] : j \in {k \in JobIds : job[k].result # None}}

\* C11 as stated: the average_score of a completed batch's summary is the
\* arithmetic mean of the N final scores of its results, and 0.0 when there
\* are no results
C11_AverageIsMean ==
  \A r \in Summaries :
    IF r.total_evaluated = 0 THEN r.average_score = 0
    ELSE r.average_score * r.total_evaluated = SumSeq(Scores(r.results))

\* C11 amended: the average_score is the mean rounded to four decimals: no
\* four-decimal value is nearer to the mean (0.0 when there are no results)
C11_AverageIsRoundedMean ==
  \A r \in Summaries :
    IF r.total_evaluated = 0 THEN r.average_score = 0
    ELSE /\ r.total_evaluated = Len(r.results)
         /\ 2 * Abs(r.average_score * r.total_evaluated
                     - SumSeq(Scores(r.results))) <= r.total_evaluated

\* a summary of three results whose mean has more than four decimals
C11_Witness ==
  \E r \in Summaries :
    /\ r.total_evaluated = 3
    /\ SumSeq(Scores(r.results)) % 3 # 0

\* ------------------------------------------------------------------------
\* C12: range of a judge result
\* ------------------------------------------------------------------------

InUnit(x) == 0 <= x /\ x <= Scale

\* C12: every result the judge returns, from the heuristic judge or from an
\* external provider, has an overall score in [0, 1] and holds all five
\* dimensions, each in [0, 1].
C12_JudgeResultInRange ==
  (JudgeCalled /\ ~judge_out[1].raised)
    => LET r == judge_out[1].result[1]
       IN  /\ InUnit(r.score)
           /\ DOMAIN r.dimension_scores = Dimensions
           /\ \A d \in Dimensions : InUnit(r.dimension_scores[d])

\* ------------------------------------------------------------------------
\* C13, C14: the rule checker
\* ------------------------------------------------------------------------

RuleLabels ==
  {"Response is empty", "Response too short (< 10 chars)",
   "Response lacks sentence structure", "Low keyword overlap with prompt"}

\* the deduction the specification gives the rule behind an issue
RuleDeduction(label) ==
  CASE label = "Response is empty" -> 3000
    [] label = "Response too short (< 10 chars)" -> 2000
    [] label = "Response lacks sentence structure" -> 1500
    [] label = "Low keyword overlap with prompt" -> 1000

\* the rule behind an issue is triggered by the call's arguments
RuleTriggered(label) ==
  LET prompt == fn_args.prompt
      resp == fn_args.response
      shared == Cardinality(WordSet(prompt) \cap WordSet(resp))
      base == Cardinality(WordSet(prompt))
  IN  CASE label = "Response is empty" -> Words(resp) = << >>
        [] label = "Response too short (< 10 chars)" ->
             CharLen(Words(resp)) <= 9
        [] label = "Response lacks sentence structure" ->
             ~HasSentenceMark(resp)
        [] label = "Low keyword overlap with prompt" ->
             IF base = 0 THEN TRUE ELSE 10 * shared < base

IssueLabels(r) == {r.issues[k][1] : k \in 1..Len(r.issues)}

C14_EmptyResponse ==
  (fn_ret # None /\ fn_args.response \in {<< >>, <<Blank>>})
    => /\ fn_ret[1].score < 5000
       /\ "Response is empty" \in IssueLabels(fn_ret[1])

\* a whitespace-only response to a prompt with words
C14_Witness ==
  /\ fn_ret # None
  /\ fn_args.response = <<Blank>>
  /\ fn_args.prompt = <<"Explain", "machine", "learning">>
  /\ fn_ret[1].score = 2500

\* ------------------------------------------------------------------------
\* C15: when the heuristic judge deducts
\* ------------------------------------------------------------------------

\* the places of the text where the phrase starts
Occurrences(text, phrase) ==
  Cardinality({k \in 1..(Len(text) - Len(phrase) + 1) :
                 \A m \in 1..Len(phrase) : Stem(text[k + m - 1]) = phrase[m]})

\* occurrences of the list's phrases in total, repeats of a phrase counting
TotalOccurrences(text, phrases) ==
  SumSeq([k \in 1..Len(phrases) |-> Occurrences(Lower(text), phrases[k])])

\* the list's phrases that occur at all
DistinctPhrases(text, phrases) ==
  Cardinality({k \in 1..Len(phrases) : Occurrences(Lower(text), phrases[k]) > 0})

\* the deductions a heuristic result shows: on the three dimensions, and on
\* the overall score (0.1 for each 0.15 taken from accuracy)
ShowsDeductions(r, halluc, assum, hedge) ==
  /\ r.dimension_scores["hallucination_prevention"] = 8000 - B2N(halluc, 2000)
  /\ r.dimension_scores["assumption_prevention"] = 8000 - B2N(assum, 1500)
  /\ r.dimension_scores["coherence"] = 8000 - B2N(hedge, 1000)
  /\ r.score = 8000 - B2N(halluc, 1500) - B2N(assum, 1000) - B2N(hedge, 500)
                 - ((8000 - r.dimension_scores["accuracy"]) \div 1500) * 1000

\* C15: the heuristic judge applies the speculative-phrase deduction exactly
\* when the response holds at least 3 occurrences of speculative phrases in
\* total, repeated occurrences of one phrase each counting, and the
\* assumption-phrase and hedge-word deductions exactly when it holds at least
\* 2 occurrences of phrases of the respective list.
C15_DeductionsByOccurrences ==
  (fn_ret # None /\ "response" \in DOMAIN fn_args)
    => ShowsDeductions(fn_ret[1],
         TotalOccurrences(fn_args.response, hallucination_phrases) >= 3,
         TotalOccurrences(fn_args.response, assumption_phrases) >= 2,
         TotalOccurrences(fn_args.response, hedge_words) >= 2)

\* ------------------------------------------------------------------------
\* C16, C17: the score aggregator
\* ------------------------------------------------------------------------

\* the quotient q has the value n/d
HasValue(q, n, d) == q.den # 0 /\ d # 0 /\ q.num * d = n * q.den

\* the quotient n/d clamped to [0, 1] is the value of q
IsClamped(q, n, d) ==
  LET sn == IF d < 0 THEN -n ELSE n
      sd == IF d < 0 THEN -d ELSE d
  IN  IF sn < 0 THEN HasValue(q, 0, 1)
      ELSE IF sn > Scale * sd THEN HasValue(q, Scale, 1)
      ELSE HasValue(q, sn, sd)

AggregateReturned == fn_ret # None /\ fn_args.fn = "aggregate_scores"

WeightedReturned == fn_ret # None /\ fn_args.fn = "aggregate_scores_weighted"

\* the sum over the dimensions dims of weight times score, a dimension
\* without a score counting as score 0
RECURSIVE Numerator(_, _, _)
Numerator(s, w, dims) ==
  IF dims = {} THEN 0
  ELSE LET d == CHOOSE x \in dims : TRUE
       IN  (IF d \in DOMAIN s THEN s[d] * w[d] ELSE 0)
             + Numerator(s, w, dims \ {d})

\* the sum of all weights
RECURSIVE Denominator(_, _)
Denominator(w, dims) ==
  IF dims = {} THEN 0
  ELSE LET d == CHOOSE x \in dims : TRUE
       IN  w[d] + Denominator(w, dims \ {d})

\* C17: aggregate_weighted returns 0.0 when dimension_scores is empty or the
\* total weight is 0, and otherwise the sum over the dimensions d of the
\* weights of score[d]*weight[d], divided by the sum of all weights and
\* clamped to [0, 1]: a weighted dimension without a score adds 0 to the
\* numerator while its weight counts in the denominator, and a dimension
\* without a weight does not affect the result.
C17_WeightedMean ==
  WeightedReturned
    => LET s == fn_args.scores
           w == fn_args.weights
           q == fn_ret[1]
           weighted == [d \in DOMAIN s \cap DOMAIN w |-> s[d]]
           total == Denominator(w, DOMAIN w)
       IN  /\ IF DOMAIN s = {} \/ total = 0 THEN HasValue(q, 0, 1)
              ELSE IsClamped(q, Numerator(s, w, DOMAIN w), total)
           /\ IF DOMAIN weighted = {} \/ total = 0 THEN HasValue(q, 0, 1)
              ELSE IsClamped(q, Numerator(weighted, w, DOMAIN w), total)

\* a weighted dimension without a score, and a score without a weight:
\* (0.9 * 0.6 + 0 * 0.4) / (0.6 + 0.4) = 0.54
C17_Witness ==
  /\ WeightedReturned
  /\ DOMAIN fn_args.scores = {"instruction_following", "coherence"}
  /\ DOMAIN fn_args.weights = {"instruction_following", "accuracy"}
  /\ fn_args.scores["instruction_following"] = 9000
  /\ fn_args.weights["instruction_following"] = 6
  /\ fn_args.weights["accuracy"] = 4
  /\ HasValue(fn_ret[1], 5400, 1)

\* ------------------------------------------------------------------------
\* C18: a failure of save_result
\* ------------------------------------------------------------------------

SaveFailed(j) == job[j].exc = Some(SaveError)

OnlySubmission(j) == \A k \in JobIds \ {j} : job[k].bid # job[j].bid

\* C18: a failure of save_result never fails the evaluation path: a batch
\* whose items were all evaluated successfully is completed, with its result
\* attached, even if save_result failed.
C18_SaveFailureHarmless ==
  \A j \in JobIds :
    (job[j].pc = "done" /\ job[j].total >= 1 /\ AllReturned(j)
       /\ SaveFailed(j) /\ OnlySubmission(j))
      => /\ batch_status[job[j].bid].status = "completed"
         /\ batch_status[job[j].bid].result # None

\* ------------------------------------------------------------------------
\* C19, C20: order of the chunks, size of the pool
\* ------------------------------------------------------------------------

\* the chunk (0, 1, ...) the i-th input of a batch belongs to
ChunkOf(i) == (i - 1) \div max_batch_size

Started(j, i) == items[j][i].st \in {"running", "ok", "raised"}
Finished(j, i) == items[j][i].st \in {"ok", "raised"}

\* C19: within one batch the chunks are processed strictly in input order:
\* no item of chunk k+1 starts evaluation before every item of chunk k has
\* finished.
C19_ChunksInOrder ==
  \A j \in JobIds :
    \A i1, i2 \in 1..job[j].total :
      (ChunkOf(i1) < ChunkOf(i2) /\ Started(j, i2)) => Finished(j, i1)

\* an item of the second chunk is being evaluated
C19_Witness ==
  \E j \in JobIds :
    \E i \in 1..job[j].total :
      ChunkOf(i) = 1 /\ items[j][i].st = "running"

\* the evaluations executing at this moment, over all batches
Executing ==
  {p \in JobIds \X ItemIds : items[p[1]][p[2]].st = "running"}

\* C20: at every moment the number of evaluate_one calls executing
\* concurrently is at most the configured worker limit, whatever the batch
\* size, the chunk size and the number of batches in flight.
C20_PoolBounded == Cardinality(Executing) <= max_workers

\* the pool is full with evaluations of two batches while a task waits
C20_Witness ==
  /\ Cardinality(Executing) = max_workers
  /\ Cardinality({p[1] : p \in Executing}) >= 2
  /\ work_queue # << >>

\* ------------------------------------------------------------------------
\* C21: the progress callback
\* ------------------------------------------------------------------------

\* ceil(n / c)
CeilDiv(n, c) == (n + c - 1) \div c

\* the task has left process_batch_async without an item having raised
Processed(j) ==
  /\ job[j].pc \in {"completing", "failing", "done"}
  /\ ~IsItemError(job[j].exc)

\* C21: for a batch of N inputs with maximum chunk size C and no item
\* failure the progress callback is invoked exactly ceil(N/C) times; the k-th
\* invocation happens only after all items of the k-th contiguous chunk have
\* finished and carries (min(k*C, N), N), so the processed values reported
\* are strictly increasing and the last one is N.
C21_ProgressPerChunk ==
  \A j \in JobIds :
    LET n == job[j].total
        calls == job[j].progress
    IN  /\ \A k \in 1..Len(calls) :
             /\ calls[k] = <<Min(k * max_batch_size, n), n>>
             /\ \A i \in ((k - 1) * max_batch_size + 1)..Min(k * max_batch_size, n) :
                  Finished(j, i)
        /\ \A k \in 1..(Len(calls) - 1) : calls[k][1] < calls[k + 1][1]
        /\ Processed(j)
             => /\ Len(calls) = CeilDiv(n, max_batch_size)
                /\ n > 0 => calls[Len(calls)][1] = n

\* a batch of more inputs than a chunk holds, with a last chunk that is not
\* full, has been processed
C21_Witness ==
  \E j \in JobIds :
    /\ Processed(j)
    /\ job[j].total > max_batch_size
    /\ job[j].total % max_batch_size # 0
    /\ Len(job[j].progress) = CeilDiv(job[j].total, max_batch_size)

\* ------------------------------------------------------------------------
\* C22: no retries in a judge call
\* ------------------------------------------------------------------------

\* C22: within one judge call the configured provider is invoked at most once
\* and the heuristic fallback at most once; a failed provider call is not
\* retried and no second provider is tried.
C22_NoRetry ==
  JudgeCalled
    => /\ judge_out[1].provider_calls <= 1
       /\ judge_out[1].heuristic_calls <= 1
       /\ judge_out[1].constructed <= 1
       /\ (judge_out[1].provider_calls = 1 /\ judge_out[1].heuristic_calls = 1)
            => ProviderFailed(settings, judge_call[1].env)

\* a provider call that failed on the network, answered by the fallback
C22_Witness ==
  /\ JudgeCalled
  /\ settings.use_llm_evaluation
  /\ settings.use_heuristic_fallback
  /\ settings.llm_provider = "gemini"
  /\ judge_call[1].env.call = "network_error"
  /\ judge_out[1].provider_calls = 1
  /\ judge_out[1].heuristic_calls = 1

\* ------------------------------------------------------------------------
\* C23: order of the results
\* ------------------------------------------------------------------------

\* C23: in the summary of a completed batch, results is ordered like the
\* inputs: results[i] is the result of evaluating inputs[i], whatever the
\* order in which the concurrent evaluations finished.
C23_ResultsInInputOrder ==
  \A j \in JobIds :
    job[j].result # None
      => LET r == job[j].result[1].results
         IN  /\ Len(r) = job[j].total
             /\ \A i \in 1..Len(r) :
                  /\ r[i].id = <<job[j].bid, i>>
                  /\ r[i] = items[j][i].res[1]

\* a summary over two chunks whose first two results differ
C23_Witness ==
  \E j \in JobIds :
    /\ job[j].result # None
    /\ job[j].total = 3
    /\ job[j].result[1].results[1].score # job[j].result[1].results[2].score

\* ------------------------------------------------------------------------
\* C24: what an item's evaluation scores
\* ------------------------------------------------------------------------

\* C24: in batch evaluation the rule checker is called with (prompt,
\* response) and the judge with (prompt, response, reference): the text
\* scored is the item's response, and the item's reference is passed only as
\* the optional reference answer.
C24_ScoresTheResponse ==
  fn_ret # None
    => /\ fn_ret[1].rule_args = <<fn_args.item.prompt, fn_args.item.response>>
       /\ fn_ret[1].judge_args =
            <<fn_args.item.prompt, fn_args.item.response,
              fn_args.item.reference>>

\* ------------------------------------------------------------------------
\* C25: records of different submissions
\* ------------------------------------------------------------------------

\* submission j is made in this step, for batch_id b
Submits(j, b) == job[j].pc = "none" /\ job'[j].pc = "queued" /\ job'[j].bid = b

\* the newest submission for the batch_id of submission j
Newest(j) ==
  \A k \in JobIds : (job[k].pc # "none" /\ job[k].bid = job[j].bid) => k <= j

\* task j takes a step that writes to the record of its batch_id
Writes(j) ==
  /\ job[j].pc # "none"
  /\ job'[j] # job[j]
  /\ batch_status'[job[j].bid] # batch_status[job[j].bid]

\* C25: a submission whose batch_id already has a record does not overwrite
\* or reset that record, and the progress and completion writes of one job
\* never modify a record created by a different submission.
C25_RecordsKept ==
  [][/\ \A j \in JobIds : \A b \in DOMAIN batch_status :
          Submits(j, b) => batch_status'[b] = batch_status[b]
     /\ \A j \in JobIds : Writes(j) => Newest(j)]_vars

\* ------------------------------------------------------------------------
\* C26: a failed batch's evaluations
\* ------------------------------------------------------------------------

\* C26: whenever a batch's tracker status is failed, no evaluation of an
\* item of that batch is still executing and none starts afterwards (none is
\* waiting in the pool's queue).
C26_FailedIsQuiet ==
  \A j \in JobIds :
    (job[j].pc # "none" /\ OnlySubmission(j)
       /\ batch_status[job[j].bid].status = "failed")
      => \A i \in 1..job[j].total : items[j][i].st \notin {"queued", "running"}

\* ------------------------------------------------------------------------
\* C27: a completed record
\* ------------------------------------------------------------------------

\* C27: whenever a batch's tracker status is completed, its processed equals
\* its total and its result's total_evaluated equals its total (looked at
\* when no task is between its write of the status and its write of the
\* result).
C27_CompletedIsWhole ==
  \A b \in DOMAIN batch_status :
    (batch_status[b].status = "completed" /\ LoopFree)
      => /\ batch_status[b].processed = batch_status[b].total
         /\ batch_status[b].result # None
         /\ batch_status[b].result[1].total_evaluated = batch_status[b].total

\* ------------------------------------------------------------------------
\* C28: every input evaluated once
\* ------------------------------------------------------------------------

\* C28: when a batch completes successfully, evaluate_func has been invoked
\* exactly once for every input of the batch (none skipped, none evaluated
\* twice) and results holds exactly one entry per input.
C28_EachInputOnce ==
  \A j \in JobIds :
    job[j].result # None
      => /\ \A i \in 1..job[j].total : items[j][i].runs = 1
         /\ \A i \in ItemIds \ (1..job[j].total) : items[j][i].runs = 0
         /\ Len(job[j].result[1].results) = job[j].total
         /\ \A i \in 1..job[j].total :
              Cardinality({k \in 1..Len(job[j].result[1].results) :
                             job[j].result[1].results[k].id[2] = i}) = 1

\* a batch of two chunks has completed
C28_Witness ==
  \E j \in JobIds :
    /\ job[j].result # None
    /\ job[j].pc = "done"
    /\ job[j].total > max_batch_size
    /\ \A i \in 1..job[j].total : items[j][i].runs = 1

\* ------------------------------------------------------------------------
\* C29: a batch without inputs
\* ------------------------------------------------------------------------

\* C29: a batch submitted with zero inputs reaches status completed without
\* any evaluate_func or progress callback invocation, with processed = total
\* = 0 and a result whose total_evaluated is 0, average_score is 0.0 and
\* dimension_averages is empty.
C29_EmptyBatchCompletes ==
  \A j \in JobIds :
    (job[j].pc = "done" /\ job[j].total = 0 /\ OnlySubmission(j))
      => /\ \A i \in ItemIds : items[j][i].runs = 0
         /\ job[j].progress = << >>
         /\ batch_status[job[j].bid].status = "completed"
         /\ batch_status[job[j].bid].processed = 0
         /\ batch_status[job[j].bid].total = 0
         /\ batch_status[job[j].bid].result # None
         /\ batch_status[job[j].bid].result[1].total_evaluated = 0
         /\ batch_status[job[j].bid].result[1].average_score = 0
         /\ batch_status[job[j].bid].result[1].dimension_averages = EmptyDict

\* ------------------------------------------------------------------------
\* C30: the heuristic judge's final clamp
\* ------------------------------------------------------------------------

\* the overall deduction that belongs to a reason of the heuristic judge
ReasonDeduction(kind) ==
  CASE kind = "speculative phrases" -> 1500
    [] kind = "assumptions" -> 1000
    [] kind = "brief" -> 1000
    [] kind = "low similarity" -> 1000
    [] kind = "hedging words" -> 500
    [] OTHER -> 0

\* C30: for every input the heuristic judge's final clamp is a no-op: the
\* overall score is 0.8 minus the sum of the triggered overall deductions and
\* lies in [0.3, 0.8], every dimension lies in [0.5, 0.8], and
\* instruction_following is exactly 0.8.
C30_ClampIsNoOp ==
  fn_ret # None
    => LET r == fn_ret[1]
           taken == [k \in 1..Len(r.reason) |-> ReasonDeduction(r.reason[k][1])]
           t == fn_args
       IN  /\ IF "response" \in DOMAIN fn_args
              THEN r.score = 8000 - SumSeq(taken)
              ELSE r.score = 8000 - (IF t.halluc THEN 1500 ELSE 0)
                               - (IF t.assum THEN 1000 ELSE 0)
                               - (IF t.brief THEN 1000 ELSE 0)
                               - (IF t.lowsim THEN 1000 ELSE 0)
                               - (IF t.hedge THEN 500 ELSE 0)
           /\ 3000 <= r.score /\ r.score <= 8000
           /\ \A d \in Dimensions :
                5000 <= r.dimension_scores[d] /\ r.dimension_scores[d] <= 8000
           /\ r.dimension_scores["instruction_following"] = 8000

\* a brief, speculative response far from its reference: accuracy at its
\* lowest value
C30_Witness ==
  /\ fn_ret # None
  /\ "response" \in DOMAIN fn_args
  /\ fn_args.reference # << >>
  /\ fn_ret[1].score = 4500
  /\ fn_ret[1].dimension_scores["accuracy"] = 5000
  /\ fn_ret[1].dimension_scores["hallucination_prevention"] = 6000

====
